---- MODULE Spec2Model ----
(***************************************************************************)
(* Model of Client.complete of the chat-completions adapter: the transport *)
(* outcome, the format detector, the buffered decoder and the SSE stream   *)
(* reconstructor with its tool-call accumulator and progress events.       *)
(*                                                                         *)
(* Conventions.  A Go pointer is a sequence of length 0 (nil) or 1.  A Go  *)
(* string whose concatenation matters (text, arguments) is a sequence of   *)
(* characters; identifiers and names are TLA+ strings.  A Go slice is a    *)
(* sequence, so the Go position i is the TLA+ position i + 1.  The         *)
(* accumulator map[int]*ToolCall is a function whose domain is the set of  *)
(* keys.                                                                   *)
(***************************************************************************)
EXTENDS Integers, Sequences, FiniteSets, TLC

VARIABLES
    pc,           \* "start", "scan" (in the SSE loop), "done" (returned), "panic"
    path,         \* "none", "buffered", "stream"
    token,        \* opt.ProgressToken != nil
    body,         \* the lines lines.Scan() has returned so far
    initialized,  \* the local of that name
    resp,         \* the local resp
    toolCalls,    \* the local toolCalls (the accumulator)
    events,       \* what progress.Send has dispatched, in call order
    retResp,      \* the returned *Response (nil before the return)
    retErr,       \* the returned error
    fault,        \* the failure the environment injected, "none" if none
    panicAt,      \* where a run-time panic was raised, "none" if none
    canceled,     \* the caller's context is canceled
    pending,      \* lines received into the reader's buffers and not yet scanned
    raw,          \* the first bytes of the body, as the server sent them
    mpc,          \* describeSession: the calling goroutine
    gpc,          \* describeSession: the goroutine it starts
    description,  \* describeSession: the local description
    contents,     \* describeSession: the types of ret.Content, the loop's position
    lookup,       \* describeSession: how far the database lookup got
    closes,       \* describeSession: how many times close(result) ran
    sessionSet,   \* describeSession: session.Set has run
    dbTried       \* describeSession: manager.DB.Update has been called

\* The variables of the wire (context, reader buffers, first bytes).
wire == <<canceled, pending, raw>>

\* The variables of describeSession.
desc == <<mpc, gpc, description, contents, lookup, closes, sessionSet, dbTried>>

\* The variables of Client.complete.
call == <<pc, path, token, body, initialized, resp, toolCalls, events,
          retResp, retErr, fault, panicAt>>

vars == <<pc, path, token, body, initialized, resp, toolCalls, events,
          retResp, retErr, fault, panicAt, canceled, pending, raw,
          mpc, gpc, description, contents, lookup, closes, sessionSet, dbTried>>

\* The longest SSE body (in lines) the reconstructor is fed.
MaxLines == 3

Nil == <<>>
Ptr(x) == <<x>>
Deref(p) == p[1]

\* fmt.Sprintf("chatcmpl-%d", time.Now().UnixNano()): some non-empty string.
SyntheticID == "chatcmpl-T"

EmptyMap == [k \in {} |-> 0]
Put(m, k, v) == [x \in (DOMAIN m) \cup {k} |-> IF x = k THEN v ELSE m[x]]

------------------------------------------------------------------------------
\* Wire values

Fn(name, args) == [Name |-> name, Arguments |-> args]

\* One element of delta.tool_calls: Index is a *int.
Frag(idx, id, name, args) ==
    [Index |-> idx, ID |-> id, Type |-> IF id = "" THEN "" ELSE "function",
     Function |-> Fn(name, args)]

\* A ToolCall of a complete message (no position index on the wire).
Call(id, name, args) ==
    [Index |-> Nil, ID |-> id, Type |-> "function", Function |-> Fn(name, args)]

Delta(role, content, tcs, refusal) ==
    [Role |-> role, Content |-> content, ToolCalls |-> tcs, Refusal |-> refusal]

Msg(role, text, tcs) ==
    [Role |-> role, Content |-> [Text |-> text], ToolCalls |-> tcs, Refusal |-> Nil]

Entry(idx, delta, message, finish) ==
    [Index |-> idx, Delta |-> delta, Message |-> message, FinishReason |-> finish]

Chunk(id, choices, usage) == [ID |-> id, Choices |-> choices, Usage |-> usage]

\* Ordinary content deltas; ContentA omits the identifier (the Azure variant).
ContentA  == Chunk("",   <<Entry(0, Ptr(Delta("", Ptr(<<"a">>), <<>>, Nil)), Nil, Nil)>>, Nil)
ContentB  == Chunk("c1", <<Entry(0, Ptr(Delta("assistant", Ptr(<<"b">>), <<>>, Nil)), Nil, Nil)>>, Nil)
\* An empty content fragment together with the finish reason.
FinStop   == Chunk("c1", <<Entry(0, Ptr(Delta("", Ptr(<<>>), <<>>, Nil)), Nil, Ptr("stop"))>>, Nil)
FinLength == Chunk("",   <<Entry(0, Ptr(Delta("", Nil, <<>>, Ptr(<<"r">>))), Nil, Ptr("length"))>>, Nil)
\* Tool-call fragments.
Tool0     == Chunk("c1", <<Entry(0, Ptr(Delta("", Nil, <<Frag(Ptr(0), "call0", "f", <<"x">>)>>, Nil)), Nil, Nil)>>, Nil)
Tool0More == Chunk("",   <<Entry(0, Ptr(Delta("", Nil, <<Frag(Nil, "", "", <<"y">>)>>, Nil)), Nil, Nil)>>, Nil)
\* Two fragments in one delta; the second has no index and is filed under
\* its position in the list, 1.
Tool1     == Chunk("",   <<Entry(0, Ptr(Delta("", Nil, <<Frag(Ptr(0), "", "", <<"u">>),
                                                         Frag(Nil, "call1", "g", <<"z">>)>>, Nil)), Nil, Nil)>>, Nil)
Tool2     == Chunk("c1", <<Entry(0, Ptr(Delta("", Nil, <<Frag(Ptr(2), "call2", "h", <<"v">>)>>, Nil)), Nil, Nil)>>, Nil)
\* A complete message in place of a delta.
Whole     == Chunk("",   <<Entry(0, Nil, Ptr(Msg("assistant", Ptr(<<"q">>), <<Call("callq", "k", <<"w">>)>>)), Ptr("stop"))>>, Nil)
WholeBare == Chunk("",   <<Entry(0, Nil, Ptr(Msg("assistant", Nil, <<>>)), Nil)>>, Nil)
\* Entries for a choice index outside the one-element choice list; Beyond
\* has an entry for choice 0 after the one for choice 1.
Beyond    == Chunk("",   <<Entry(1, Ptr(Delta("user", Ptr(<<"a">>), <<>>, Nil)), Nil, Ptr("stop")),
                           Entry(0, Ptr(Delta("", Ptr(<<"b">>), <<>>, Nil)), Nil, Nil)>>, Nil)
Negative  == Chunk("",   <<Entry(-1, Ptr(Delta("", Ptr(<<"a">>), <<>>, Nil)), Nil, Nil)>>, Nil)
\* Content, two tool-call fragments and the finish reason in one delta.
Mixed     == Chunk("c1", <<Entry(0, Ptr(Delta("", Ptr(<<"m">>), <<Frag(Ptr(0), "call0", "f", <<"s">>),
                                                                  Frag(Ptr(1), "call1", "g", <<"t">>)>>, Nil)),
                                 Nil, Ptr("stop"))>>, Nil)
\* The terminal usage chunk: no choices, a different identifier.
UsageOnly == Chunk("c2", <<>>, Ptr(7))

Chunks == {ContentA, ContentB, FinStop, FinLength, Tool0, Tool0More, Tool1,
           Tool2, Whole, WholeBare, Beyond, Negative, Mixed, UsageOnly}

\* One line of the body as the scanner returns it.
Other      == [kind |-> "other"]                  \* no "data: " prefix
Done       == [kind |-> "done"]                   \* data: [DONE]
Bad        == [kind |-> "bad"]                    \* data: <not a JSON chunk>
Data(c)    == [kind |-> "chunk", chunk |-> c]     \* data: <JSON chunk>

Lines == {Other, Done, Bad} \cup {Data(c) : c \in Chunks}

------------------------------------------------------------------------------
\* Response values

ZeroResponse == [ID |-> "", Object |-> "", Choices |-> <<>>, Usage |-> Nil]

ShellOf(chunk) ==
    [ID |-> chunk.ID, Object |-> "chat.completion",
     Choices |-> <<[Index |-> 0, Message |-> Ptr(Msg("assistant", Nil, <<>>)),
                    FinishReason |-> Nil]>>,
     Usage |-> Nil]

\* A Send that dispatches whether or not a continuation token is set.
Send_Always(evs, ev) == Append(evs, ev)

\* progress.Send: dispatches to the sink only when a continuation token is set.
Send(evs, ev) == IF token THEN Append(evs, ev) ELSE evs

\* fmt.Sprintf("%s-%d", id, n), fmt.Sprintf("%s-t-%d", id, n) and
\* fmt.Sprintf("%s-content", id) as the triple of their parts.
ItemID(id, tag, n) == <<id, tag, n>>

ContentEvent(id, item, partial, more, text) ==
    [MessageID |-> id, ID |-> item, Partial |-> partial,
     HasMore |-> more, Content |-> Ptr(text), ToolCall |-> Nil]

ToolEvent(id, item, partial, more, callID, name, args) ==
    [MessageID |-> id, ID |-> item, Partial |-> partial,
     HasMore |-> more, Content |-> Nil,
     ToolCall |-> Ptr([CallID |-> callID, Name |-> name, Arguments |-> args])]

------------------------------------------------------------------------------
\* The stream reconstructor.  A reconstructor state is a record s with
\* the locals of the loop (initialized, resp, toolCalls), the events sent so
\* far and ctl: "scan" in the loop, "break" after [DONE], "panic" after a
\* run-time fault (index out of range).

Locals(i, r, t, e) ==
    [initialized |-> i, resp |-> r, toolCalls |-> t, events |-> e, ctl |-> "scan"]

Fresh == Locals(FALSE, ZeroResponse, EmptyMap, <<>>)

Panic(s) == [s EXCEPT !.ctl = "panic"]

\* for i, toolCall := range choice.Message.ToolCalls { progress.Send(...) }
RECURSIVE SendCalls(_, _, _, _)
SendCalls(evs, id, calls, k) ==
    IF k > Len(calls) THEN evs
    ELSE SendCalls(Send(evs, ToolEvent(id, ItemID(id, "-t-", k - 1), FALSE, FALSE, calls[k].ID,
                                       calls[k].Function.Name,
                                       calls[k].Function.Arguments)),
                   id, calls, k + 1)

\* delta == nil && choice.Message != nil
HandleMessage(s, choice) ==
    IF choice.Index < 0 THEN Panic(s)
    ELSE LET msg == Deref(choice.Message)
             id  == IF s.resp.ID = "" THEN SyntheticID ELSE s.resp.ID
             e1  == IF token /\ msg.Content.Text # Nil
                    THEN Send(s.events, ContentEvent(id, ItemID(id, "-", choice.Index),
                                                     FALSE, FALSE,
                                                     Deref(msg.Content.Text)))
                    ELSE s.events
         IN  [s EXCEPT !.resp.Choices[choice.Index + 1].Message = choice.Message,
                       !.resp.ID = id,
                       !.events = SendCalls(e1, id, msg.ToolCalls, 1)]

HandleRole(s, choice) ==
    LET delta == Deref(choice.Delta) IN
    IF s.ctl = "panic" \/ delta.Role = "" THEN s
    ELSE IF choice.Index < 0 THEN Panic(s)
    ELSE IF s.resp.Choices[choice.Index + 1].Message = Nil THEN s
    ELSE [s EXCEPT !.resp.Choices[choice.Index + 1].Message[1].Role = delta.Role]

\* HandleContent with the fragment put before the accumulated text.
HandleContent_Prepend(s, choice) ==
    LET delta == Deref(choice.Delta) IN
    IF s.ctl = "panic" \/ delta.Content = Nil THEN s
    ELSE IF choice.Index < 0 THEN Panic(s)
    ELSE LET old  == s.resp.Choices[choice.Index + 1].Message[1].Content.Text
             base == IF old = Nil THEN <<>> ELSE Deref(old)
             frag == Deref(delta.Content)
         IN  [s EXCEPT !.resp.Choices[choice.Index + 1].Message[1].Content.Text =
                           Ptr(frag \o base),
                       !.events =
                           IF s.resp.ID # "" /\ token
                           THEN Send(@, ContentEvent(s.resp.ID,
                                                     ItemID(s.resp.ID, "-", choice.Index),
                                                     TRUE, choice.FinishReason = Nil, frag))
                           ELSE @]

\* HandleContent with the event carrying the running total.
HandleContent_Total(s, choice) ==
    LET delta == Deref(choice.Delta) IN
    IF s.ctl = "panic" \/ delta.Content = Nil THEN s
    ELSE IF choice.Index < 0 THEN Panic(s)
    ELSE LET old  == s.resp.Choices[choice.Index + 1].Message[1].Content.Text
             base == IF old = Nil THEN <<>> ELSE Deref(old)
             frag == Deref(delta.Content)
         IN  [s EXCEPT !.resp.Choices[choice.Index + 1].Message[1].Content.Text =
                           Ptr(base \o frag),
                       !.events =
                           IF s.resp.ID # "" /\ token
                           THEN Send(@, ContentEvent(s.resp.ID,
                                                     ItemID(s.resp.ID, "-", choice.Index),
                                                     TRUE, choice.FinishReason = Nil,
                                                     base \o frag))
                           ELSE @]

HandleContent(s, choice) ==
    LET delta == Deref(choice.Delta) IN
    IF s.ctl = "panic" \/ delta.Content = Nil THEN s
    ELSE IF choice.Index < 0 THEN Panic(s)
    ELSE LET old  == s.resp.Choices[choice.Index + 1].Message[1].Content.Text
             base == IF old = Nil THEN <<>> ELSE Deref(old)
             frag == Deref(delta.Content)
         IN  [s EXCEPT !.resp.Choices[choice.Index + 1].Message[1].Content.Text =
                           Ptr(base \o frag),
                       !.events =
                           IF s.resp.ID # "" /\ token
                           THEN Send(@, ContentEvent(s.resp.ID,
                                                     ItemID(s.resp.ID, "-", choice.Index),
                                                     TRUE, choice.FinishReason = Nil, frag))
                           ELSE @]

\* MergeFragment with "=" in place of "+=" on the arguments.
MergeFragment_Overwrite(s, toolCall, i, isFinished) ==
    LET index == IF toolCall.Index # Nil THEN Deref(toolCall.Index) ELSE i
        acc   == Put(s.toolCalls, index,
                     [Index |-> Nil, ID |-> toolCall.ID, Type |-> toolCall.Type,
                      Function |-> Fn(toolCall.Function.Name,
                                      toolCall.Function.Arguments)])
    IN  [s EXCEPT !.toolCalls = acc,
                  !.events =
                      IF s.resp.ID # "" /\ token
                      THEN Send(@, ToolEvent(s.resp.ID, ItemID(s.resp.ID, "-t-", index),
                                             TRUE, ~isFinished,
                                             acc[index].ID, acc[index].Function.Name,
                                             toolCall.Function.Arguments))
                      ELSE @]

\* MergeFragment that lets a later fragment with an identifier of its own
\* replace the identifier, type and name of the entry.
MergeFragment_OwnID(s, toolCall, i, isFinished) ==
    LET index == IF toolCall.Index # Nil THEN Deref(toolCall.Index) ELSE i
        acc   == IF index \notin DOMAIN s.toolCalls
                 THEN Put(s.toolCalls, index,
                          [Index |-> Nil, ID |-> toolCall.ID, Type |-> toolCall.Type,
                           Function |-> Fn(toolCall.Function.Name,
                                           toolCall.Function.Arguments)])
                 ELSE IF toolCall.ID # ""
                 THEN [s.toolCalls EXCEPT ![index].ID = toolCall.ID,
                                          ![index].Type = toolCall.Type,
                                          ![index].Function.Name = toolCall.Function.Name,
                                          ![index].Function.Arguments =
                                              @ \o toolCall.Function.Arguments]
                 ELSE [s.toolCalls EXCEPT ![index].Function.Arguments =
                                              @ \o toolCall.Function.Arguments]
    IN  [s EXCEPT !.toolCalls = acc,
                  !.events =
                      IF s.resp.ID # "" /\ token
                      THEN Send(@, ToolEvent(s.resp.ID, ItemID(s.resp.ID, "-t-", index),
                                             TRUE, ~isFinished,
                                             acc[index].ID, acc[index].Function.Name,
                                             toolCall.Function.Arguments))
                      ELSE @]

\* One fragment of delta.ToolCalls at Go position i.
MergeFragment(s, toolCall, i, isFinished) ==
    LET index == IF toolCall.Index # Nil THEN Deref(toolCall.Index) ELSE i
        acc   == IF index \notin DOMAIN s.toolCalls
                 THEN Put(s.toolCalls, index,
                          [Index |-> Nil, ID |-> toolCall.ID, Type |-> toolCall.Type,
                           Function |-> Fn(toolCall.Function.Name,
                                           toolCall.Function.Arguments)])
                 ELSE [s.toolCalls EXCEPT ![index].Function.Arguments =
                                              @ \o toolCall.Function.Arguments]
    IN  [s EXCEPT !.toolCalls = acc,
                  !.events =
                      IF s.resp.ID # "" /\ token
                      THEN Send(@, ToolEvent(s.resp.ID, ItemID(s.resp.ID, "-t-", index),
                                             TRUE, ~isFinished,
                                             acc[index].ID, acc[index].Function.Name,
                                             toolCall.Function.Arguments))
                      ELSE @]

RECURSIVE MergeFragments(_, _, _, _)
MergeFragments(s, frags, k, isFinished) ==
    IF k > Len(frags) THEN s
    ELSE MergeFragments(MergeFragment(s, frags[k], k - 1, isFinished),
                        frags, k + 1, isFinished)

\* HandleToolCalls that takes no fragment for the last of its choice.
HandleToolCalls_NeverFinished(s, choice) ==
    IF s.ctl = "panic" THEN s
    ELSE MergeFragments(s, Deref(choice.Delta).ToolCalls, 1, FALSE)

HandleToolCalls(s, choice) ==
    IF s.ctl = "panic" THEN s
    ELSE MergeFragments(s, Deref(choice.Delta).ToolCalls, 1, choice.FinishReason # Nil)

\* HandleFinishReason that keeps the first finish reason it recorded.
HandleFinishReason_FirstWins(s, choice) ==
    IF s.ctl = "panic" \/ choice.FinishReason = Nil THEN s
    ELSE IF choice.Index < 0 THEN Panic(s)
    ELSE IF s.resp.Choices[choice.Index + 1].FinishReason # Nil THEN s
    ELSE [s EXCEPT !.resp.Choices[choice.Index + 1].FinishReason = choice.FinishReason]

HandleFinishReason(s, choice) ==
    IF s.ctl = "panic" \/ choice.FinishReason = Nil THEN s
    ELSE IF choice.Index < 0 THEN Panic(s)
    ELSE [s EXCEPT !.resp.Choices[choice.Index + 1].FinishReason = choice.FinishReason]

HandleRefusal(s, choice) ==
    LET delta == Deref(choice.Delta) IN
    IF s.ctl = "panic" \/ delta.Refusal = Nil THEN s
    ELSE IF choice.Index < 0 THEN Panic(s)
    ELSE [s EXCEPT !.resp.Choices[choice.Index + 1].Message[1].Refusal = delta.Refusal]

\* ProcessChoice that handles the tool calls of a delta before its content.
ProcessChoice_ToolsFirst(s, choice) ==
    IF s.ctl = "panic" THEN s
    ELSE IF choice.Index >= Len(s.resp.Choices) THEN s
    ELSE IF choice.Delta = Nil /\ choice.Message # Nil THEN HandleMessage(s, choice)
    ELSE IF choice.Delta = Nil THEN s
    ELSE HandleRefusal(
           HandleFinishReason(
             HandleContent(
               HandleToolCalls(
                 HandleRole(s, choice), choice), choice), choice), choice)

\* The body of "for _, choice := range chunk.Choices".
ProcessChoice(s, choice) ==
    IF s.ctl = "panic" THEN s
    ELSE IF choice.Index >= Len(s.resp.Choices) THEN s
    ELSE IF choice.Delta = Nil /\ choice.Message # Nil THEN HandleMessage(s, choice)
    ELSE IF choice.Delta = Nil THEN s
    ELSE HandleRefusal(
           HandleFinishReason(
             HandleToolCalls(
               HandleContent(
                 HandleRole(s, choice), choice), choice), choice), choice)

RECURSIVE ProcessChoices(_, _, _)
ProcessChoices(s, choices, k) ==
    IF k > Len(choices) THEN s
    ELSE ProcessChoices(ProcessChoice(s, choices[k]), choices, k + 1)

\* ProcessChunk that takes the identifier of every chunk that has one.
ProcessChunk_Overwrite(s, chunk) ==
    LET r0 == IF s.initialized THEN s.resp ELSE ShellOf(chunk)
        r1 == IF chunk.ID # "" THEN [r0 EXCEPT !.ID = chunk.ID] ELSE r0
        r2 == IF chunk.Usage # Nil THEN [r1 EXCEPT !.Usage = chunk.Usage] ELSE r1
    IN  ProcessChoices([s EXCEPT !.initialized = TRUE, !.resp = r2], chunk.Choices, 1)

\* A successfully decoded chunk.
ProcessChunk(s, chunk) ==
    LET r0 == IF s.initialized THEN s.resp ELSE ShellOf(chunk)
        r1 == IF r0.ID = "" /\ chunk.ID # "" THEN [r0 EXCEPT !.ID = chunk.ID] ELSE r0
        r2 == IF chunk.Usage # Nil THEN [r1 EXCEPT !.Usage = chunk.Usage] ELSE r1
    IN  ProcessChoices([s EXCEPT !.initialized = TRUE, !.resp = r2], chunk.Choices, 1)

\* ProcessLine that goes on with the zero chunk after a decode failure.
ProcessLine_BadDecoded(s, line) ==
    CASE line.kind = "other" -> s
      [] line.kind = "done"  -> [s EXCEPT !.ctl = "break"]
      [] line.kind = "bad"   -> ProcessChunk(s, Chunk("", <<>>, Nil))
      [] line.kind = "chunk" -> ProcessChunk(s, line.chunk)

\* One iteration of "for lines.Scan()".
ProcessLine(s, line) ==
    CASE line.kind = "other" -> s
      [] line.kind = "done"  -> [s EXCEPT !.ctl = "break"]
      [] line.kind = "bad"   -> s
      [] line.kind = "chunk" -> ProcessChunk(s, line.chunk)

\* Convert tool calls map to slice.  The slice has len(toolCalls) elements;
\* a key outside 0 .. len-1 is an index out of range.
SliceFaults(acc) ==
    \E k \in DOMAIN acc : k < 0 \/ k >= Cardinality(DOMAIN acc)

ToSlice(acc) == [i \in 1..Cardinality(DOMAIN acc) |-> acc[i - 1]]

Assemble(r, acc) ==
    IF Cardinality(DOMAIN acc) > 0
    THEN [r EXCEPT !.Choices[1].Message[1].ToolCalls = ToSlice(acc)]
    ELSE r

------------------------------------------------------------------------------
\* The call

CallInit ==
    /\ pc = "start"
    /\ path = "none"
    /\ token \in BOOLEAN
    /\ body = <<>>
    /\ initialized = FALSE
    /\ resp = ZeroResponse
    /\ toolCalls = EmptyMap
    /\ events = <<>>
    /\ retResp = Nil
    /\ retErr = Nil
    /\ fault = "none"
    /\ panicAt = "none"

\* describeSession is not running.
DescIdle ==
    /\ mpc = "idle"
    /\ gpc = "idle"
    /\ description = ""
    /\ contents = [Content |-> <<>>, next |-> 1]
    /\ lookup = "none"
    /\ closes = 0
    /\ sessionSet = FALSE
    /\ dbTried = FALSE

\* A live context, nothing received yet.
WireIdle ==
    /\ canceled = FALSE
    /\ pending = <<>>
    /\ raw = [head |-> <<>>, first |-> [kind |-> "other"]]

Init == CallInit /\ WireIdle /\ DescIdle

\* return nil, err
Fail(kind) ==
    /\ pc' = "done"
    /\ retResp' = Nil
    /\ retErr' = Ptr(kind)
    /\ fault' = kind

\* http.NewRequestWithContext or http.DefaultClient.Do returns an error.
TransportFail ==
    /\ pc = "start"
    /\ Fail("transport")
    /\ UNCHANGED <<path, token, body, initialized, resp, toolCalls, events, panicAt>>
    /\ UNCHANGED <<wire, desc>>

\* httpResp.StatusCode != http.StatusOK
BadStatus ==
    /\ pc = "start"
    /\ Fail("status")
    /\ UNCHANGED <<path, token, body, initialized, resp, toolCalls, events, panicAt>>
    /\ UNCHANGED <<wire, desc>>

\* reader.Peek(20) fails with something other than io.EOF.
PeekFail ==
    /\ pc = "start"
    /\ Fail("peek")
    /\ UNCHANGED <<path, token, body, initialized, resp, toolCalls, events, panicAt>>
    /\ UNCHANGED <<wire, desc>>

\* Buffered documents (the body does not start with "data: ").
Document(id, choices) == [ID |-> id, Object |-> "chat.completion", Choices |-> choices, Usage |-> Nil]

Documents ==
    { Document("", <<[Index |-> 0,
                      Message |-> Ptr(Msg("assistant", Ptr(<<"h">>),
                                          <<Call("callb", "f", <<"x">>),
                                            Call("callc", "g", <<"y">>)>>)),
                      FinishReason |-> Ptr("stop")]>>),
      Document("c1", <<[Index |-> 0, Message |-> Ptr(Msg("assistant", Nil, <<>>)),
                        FinishReason |-> Ptr("stop")]>>),
      Document("c1", <<[Index |-> 0, Message |-> Nil, FinishReason |-> Nil]>>),
      Document("", <<>>) }

\* io.ReadAll(reader) fails.
BufferedReadFail ==
    /\ pc = "start"
    /\ path' = "buffered"
    /\ Fail("read")
    /\ UNCHANGED <<token, body, initialized, resp, toolCalls, events, panicAt>>
    /\ UNCHANGED <<wire, desc>>

\* json.Unmarshal(bodyBytes, &resp) fails.
BufferedBadJSON ==
    /\ pc = "start"
    /\ path' = "buffered"
    /\ Fail("json")
    /\ UNCHANGED <<token, body, initialized, resp, toolCalls, events, panicAt>>
    /\ UNCHANGED <<wire, desc>>

\* The events of the buffered path for the first choice.
BufferedEvents(r) ==
    IF token /\ Len(r.Choices) > 0
    THEN LET choice == r.Choices[1]
             e1 == IF choice.Message # Nil /\ Deref(choice.Message).Content.Text # Nil
                   THEN Send(<<>>, ContentEvent(r.ID, ItemID(r.ID, "-content", 0),
                                                FALSE, FALSE,
                                                Deref(Deref(choice.Message).Content.Text)))
                   ELSE <<>>
         IN  IF choice.Message = Nil THEN e1
             ELSE SendCalls(e1, r.ID, Deref(choice.Message).ToolCalls, 1)
    ELSE <<>>

\* choice.Message.ToolCalls with a nil Message.
BufferedFaults(r) ==
    token /\ Len(r.Choices) > 0 /\ r.Choices[1].Message = Nil

BufferedDecode ==
    /\ pc = "start"
    /\ path' = "buffered"
    /\ \E doc \in Documents :
         LET r == IF doc.ID = "" THEN [doc EXCEPT !.ID = SyntheticID] ELSE doc IN
         /\ resp' = r
         /\ events' = BufferedEvents(r)
         /\ IF BufferedFaults(r)
            THEN pc' = "panic" /\ panicAt' = "message" /\ retResp' = Nil
            ELSE pc' = "done" /\ panicAt' = "none" /\ retResp' = Ptr(r)
    /\ UNCHANGED <<token, body, initialized, toolCalls, retErr, fault>>
    /\ UNCHANGED <<wire, desc>>

\* isSSE: the stream reconstructor starts with fresh locals.
StartStream ==
    /\ pc = "start"
    /\ pc' = "scan"
    /\ path' = "stream"
    /\ UNCHANGED <<token, body, initialized, resp, toolCalls, events, retResp, retErr, fault, panicAt>>
    /\ UNCHANGED <<wire, desc>>

Cur == Locals(initialized, resp, toolCalls, events)

\* The code after the loop when lines.Err() is nil.
Finish(s) ==
    IF SliceFaults(s.toolCalls)
    THEN /\ pc' = "panic"
         /\ panicAt' = "slice"
         /\ resp' = s.resp
         /\ retResp' = Nil
    ELSE /\ pc' = "done"
         /\ panicAt' = "none"
         /\ resp' = Assemble(s.resp, s.toolCalls)
         /\ retResp' = Ptr(resp')

\* One iteration of the loop on the line lines.Text() returns.
ScanLine(line) ==
    LET s == ProcessLine(Cur, line) IN
    /\ body' = Append(body, line)
    /\ initialized' = s.initialized
    /\ toolCalls' = s.toolCalls
    /\ events' = s.events
    /\ CASE s.ctl = "scan"  -> /\ pc' = "scan"
                               /\ panicAt' = "none"
                               /\ resp' = s.resp
                               /\ retResp' = Nil
         [] s.ctl = "panic" -> /\ pc' = "panic"
                               /\ panicAt' = "choices"
                               /\ resp' = s.resp
                               /\ retResp' = Nil
         [] s.ctl = "break" -> Finish(s)
    /\ UNCHANGED <<path, token, retErr, fault>>

\* lines.Scan() returns a line (received and scanned in one step).
ReadLine ==
    /\ pc = "scan"
    /\ Len(body) < MaxLines
    /\ \E line \in Lines : ScanLine(line)
    /\ UNCHANGED <<wire, desc>>

\* lines.Scan() returns false at the end of the body.
EndOfStream ==
    /\ pc = "scan"
    /\ Finish(Cur)
    /\ UNCHANGED <<path, token, body, initialized, toolCalls, events, retErr, fault>>
    /\ UNCHANGED <<wire, desc>>

\* lines.Scan() returns false and lines.Err() is not nil.
ScannerError ==
    /\ pc = "scan"
    /\ Fail("scanner")
    /\ UNCHANGED <<path, token, body, initialized, resp, toolCalls, events, panicAt>>
    /\ UNCHANGED <<wire, desc>>

Next ==
    \/ TransportFail
    \/ BadStatus
    \/ PeekFail
    \/ BufferedReadFail
    \/ BufferedBadJSON
    \/ BufferedDecode
    \/ StartStream
    \/ ReadLine
    \/ EndOfStream
    \/ ScannerError

Spec == Init /\ [][Next]_vars

------------------------------------------------------------------------------
\* The wire: the first bytes of the body, the format detector, the reader's
\* buffers and the caller's context.  The body is read through
\* bufio.NewReader and bufio.NewScanner, which hand out the lines they have
\* already received without reading from the connection; a read from the
\* connection fails once the request's context is canceled.

\* The longest run of whitespace before the first marker of the body.
MaxLead == 2

SP == " "
NL == "\n"
DataMarker == "data: "
JSONMarker == "{"

Leads == UNION {[1..n -> {SP, NL}] : n \in 0..MaxLead}

\* The first bytes: whitespace, then the marker; first is the line that the
\* marker "data: " starts.
RawBodies ==
    {[head |-> lead \o <<DataMarker>>, first |-> l] :
        lead \in Leads, l \in {Data(ContentA), Data(ContentB), Done}}
    \cup {[head |-> lead \o <<JSONMarker>>, first |-> Other] : lead \in Leads}

IsSpace(c) == c \in {SP, NL}

\* strings.TrimSpace
RECURSIVE TrimLeft(_)
TrimLeft(x) == IF x # <<>> /\ IsSpace(Head(x)) THEN TrimLeft(Tail(x)) ELSE x

RECURSIVE TrimRight(_)
TrimRight(x) ==
    IF x # <<>> /\ IsSpace(x[Len(x)]) THEN TrimRight(SubSeq(x, 1, Len(x) - 1)) ELSE x

TrimSpace(x) == TrimRight(TrimLeft(x))

\* strings.HasPrefix(x, "data: ")
HasDataPrefix(x) == x # <<>> /\ Head(x) = DataMarker

\* isSSE := strings.HasPrefix(strings.TrimSpace(string(firstBytes)), "data: ")
IsSSE(r) == HasDataPrefix(TrimSpace(r.head))

\* bufio.ScanLines: the bytes cut at each newline.
RECURSIVE SplitLines(_, _)
SplitLines(x, cur) ==
    IF x = <<>> THEN <<cur>>
    ELSE IF Head(x) = NL THEN <<cur>> \o SplitLines(Tail(x), <<>>)
    ELSE SplitLines(Tail(x), Append(cur, Head(x)))

\* The line the loop sees: a data line only if the text starts with "data: ".
AsLine(text, first) == IF HasDataPrefix(text) THEN first ELSE Other

ScannedHead(r) ==
    LET texts == SplitLines(r.head, <<>>) IN
    [k \in 1..Len(texts) |-> AsLine(texts[k], r.first)]

\* The end of the body as the reader receives it.
Eof == [kind |-> "eof"]

WireLines == {Data(ContentA), Data(ContentB), Data(Tool2), Done, Bad}

WireInit ==
    /\ CallInit
    /\ DescIdle
    /\ canceled = FALSE
    /\ pending = <<>>
    /\ raw \in RawBodies

\* The caller cancels ctx.
Cancel ==
    /\ pc \in {"start", "scan"}
    /\ ~canceled
    /\ canceled' = TRUE
    /\ UNCHANGED <<call, pending, raw, desc>>

\* The detector takes the streaming path; the scanner holds the first bytes.
DetectStream ==
    /\ pc = "start"
    /\ ~canceled
    /\ IsSSE(raw)
    /\ pc' = "scan"
    /\ path' = "stream"
    /\ pending' = ScannedHead(raw)
    /\ UNCHANGED <<token, body, initialized, resp, toolCalls, events, retResp,
                   retErr, fault, panicAt, canceled, raw, desc>>

\* The detector takes the buffered path.
DetectBuffered ==
    /\ ~canceled
    /\ ~IsSSE(raw)
    /\ BufferedDecode

\* A read from the connection puts a further line into the buffers.
Arrive ==
    /\ pc = "scan"
    /\ ~canceled
    /\ Len(body) + Len(pending) < MaxLines
    /\ IF pending = <<>> THEN TRUE ELSE pending[Len(pending)] # Eof
    /\ \E line \in WireLines \cup {Eof} : pending' = Append(pending, line)
    /\ UNCHANGED <<call, canceled, raw, desc>>

\* lines.Scan() returns a line that is already in the buffers.
ReadPending ==
    /\ pc = "scan"
    /\ pending # <<>>
    /\ Head(pending) # Eof
    /\ ScanLine(Head(pending))
    /\ pending' = Tail(pending)
    /\ UNCHANGED <<canceled, raw, desc>>

\* lines.Scan() returns false at the end of the body.
EndPending ==
    /\ pc = "scan"
    /\ pending # <<>>
    /\ Head(pending) = Eof
    /\ Finish(Cur)
    /\ pending' = Tail(pending)
    /\ UNCHANGED <<path, token, body, initialized, toolCalls, events, retErr, fault,
                   canceled, raw, desc>>

\* lines.Scan() has to read from the connection and the read fails.
ReadFails ==
    /\ pc = "scan"
    /\ pending = <<>>
    /\ Fail("scanner")
    /\ UNCHANGED <<path, token, body, initialized, resp, toolCalls, events, panicAt,
                   wire, desc>>

WireNext ==
    \/ Cancel
    \/ TransportFail
    \/ DetectStream
    \/ DetectBuffered
    \/ Arrive
    \/ ReadPending
    \/ EndPending
    \/ ReadFails

SpecWire == WireInit /\ [][WireNext]_vars

------------------------------------------------------------------------------
\* What the body said, read off the lines alone

IsDelta(e) == e.Delta # Nil
IsWhole(e) == e.Delta = Nil /\ e.Message # Nil
HasContent(e) == IsDelta(e) /\ Deref(e.Delta).Content # Nil
Fragment(e) == Deref(Deref(e.Delta).Content)

\* The entries of one line that address choice 0.
EntriesOf(line) ==
    IF line.kind = "chunk"
    THEN SelectSeq(line.chunk.Choices, LAMBDA e : e.Index = 0)
    ELSE <<>>

RECURSIVE AllEntries(_)
AllEntries(lines) ==
    IF lines = <<>> THEN <<>> ELSE EntriesOf(Head(lines)) \o AllEntries(Tail(lines))

\* The content fragments of the deltas, in arrival order.
RECURSIVE FragSeq(_)
FragSeq(es) ==
    IF es = <<>> THEN <<>>
    ELSE (IF HasContent(Head(es)) THEN <<Fragment(Head(es))>> ELSE <<>>) \o FragSeq(Tail(es))

RECURSIVE Concat(_)
Concat(ss) == IF ss = <<>> THEN <<>> ELSE Head(ss) \o Concat(Tail(ss))

\* The text of a complete message, empty when it has none.
WholeText(e) ==
    LET t == Deref(e.Message).Content.Text IN IF t = Nil THEN <<>> ELSE Deref(t)

\* The text of the last complete message followed by the fragments after it.
RECURSIVE TextSinceWhole(_, _)
TextSinceWhole(es, acc) ==
    IF es = <<>> THEN acc
    ELSE TextSinceWhole(Tail(es),
                        IF IsWhole(Head(es)) THEN WholeText(Head(es))
                        ELSE IF HasContent(Head(es)) THEN acc \o Fragment(Head(es))
                        ELSE acc)

Returned == pc = "done" /\ retResp # Nil
StreamReturned == path = "stream" /\ Returned

FinalMessage == Deref(Deref(retResp).Choices[1].Message)

FinalText ==
    IF Len(Deref(retResp).Choices) = 0 \/ FinalMessage.Content.Text = Nil
    THEN <<>>
    ELSE Deref(FinalMessage.Content.Text)

RECURSIVE PartialTexts(_)
PartialTexts(evs) ==
    IF evs = <<>> THEN <<>>
    ELSE (IF Head(evs).Partial /\ Head(evs).Content # Nil
          THEN <<Deref(Head(evs).Content)>> ELSE <<>>) \o PartialTexts(Tail(evs))

\* The fragments of es that arrive while the response identifier is known.
RECURSIVE TextsIn(_, _)
TextsIn(es, known) ==
    IF es = <<>> THEN <<>>
    ELSE IF IsWhole(Head(es)) THEN TextsIn(Tail(es), TRUE)
    ELSE (IF HasContent(Head(es)) /\ known THEN <<Fragment(Head(es))>> ELSE <<>>)
         \o TextsIn(Tail(es), known)

RECURSIVE IdentifiedFrags(_, _)
IdentifiedFrags(lines, known) ==
    IF lines = <<>> THEN <<>>
    ELSE LET l  == Head(lines)
             k1 == known \/ (l.kind = "chunk" /\ l.chunk.ID # "")
             es == EntriesOf(l)
         IN  TextsIn(es, k1)
             \o IdentifiedFrags(Tail(lines), k1 \/ \E i \in 1..Len(es) : IsWhole(es[i]))

\* C2 as stated: with a token, the partial content events carry exactly the
\* appended fragments, one event per fragment, in arrival order, for every
\* stream.
C2_AsStated ==
    (token /\ path = "stream") => PartialTexts(events) = FragSeq(AllEntries(body))

\* C2: with a token, the partial content events carry exactly the fragments
\* appended while the response identifier is non-empty, one event per
\* fragment, in arrival order; a fragment appended while the identifier is
\* still empty, and the [DONE] line, cause no event.
C2_IdentifiedFragments ==
    (token /\ path = "stream") => PartialTexts(events) = IdentifiedFrags(body, FALSE)

C2_Witness ==
    /\ token /\ StreamReturned
    /\ body = <<Data(ContentA), Data(ContentB), Data(FinStop)>>
    /\ PartialTexts(events) = << <<"b">>, <<>> >>

\* The tool-call fragments of the deltas with the index they are filed under.
FragsOf(e) ==
    IF IsDelta(e)
    THEN [k \in 1..Len(Deref(e.Delta).ToolCalls) |->
            LET tc == Deref(e.Delta).ToolCalls[k] IN
            [index |-> IF tc.Index # Nil THEN Deref(tc.Index) ELSE k - 1,
             args  |-> tc.Function.Arguments]]
    ELSE <<>>

RECURSIVE AllFrags(_)
AllFrags(es) == IF es = <<>> THEN <<>> ELSE FragsOf(Head(es)) \o AllFrags(Tail(es))

IndexSet(fs) == {fs[k].index : k \in 1..Len(fs)}

RECURSIVE ArgsUnder(_, _)
ArgsUnder(fs, i) ==
    IF fs = <<>> THEN <<>>
    ELSE (IF Head(fs).index = i THEN Head(fs).args ELSE <<>>) \o ArgsUnder(Tail(fs), i)

\* C3: when the indices of the tool-call fragments are 0 .. n-1 (n >= 1), the
\* final tool-call list of choice 0 has n entries and entry i has as arguments
\* the concatenation, in arrival order, of the fragments filed under i.
C3_ContiguousToolCalls ==
    StreamReturned =>
        LET fs == AllFrags(AllEntries(body))
            n  == Cardinality(IndexSet(fs))
        IN  (n >= 1 /\ IndexSet(fs) = 0..(n - 1)) =>
                /\ Len(FinalMessage.ToolCalls) = n
                /\ \A i \in 0..(n - 1) :
                       FinalMessage.ToolCalls[i + 1].Function.Arguments = ArgsUnder(fs, i)

C3_Witness ==
    /\ StreamReturned
    /\ body = <<Data(Tool0), Data(Tool1), Data(Tool0More)>>
    /\ Len(FinalMessage.ToolCalls) = 2
    /\ FinalMessage.ToolCalls[1].Function.Arguments = <<"x", "u", "y">>
    /\ FinalMessage.ToolCalls[2].Function.Arguments = <<"z">>

\* C4 as stated: every returned response has a non-empty identifier.
C4_AsStated == Returned => Deref(retResp).ID # ""

\* C5 as stated: on the streaming path finalization never writes outside the
\* list, and the returned list holds at every position k that received a
\* fragment the call accumulated under k.
C5_AsStated ==
    path = "stream" =>
        /\ panicAt # "slice"
        /\ Returned =>
               \A k \in IndexSet(AllFrags(AllEntries(body))) :
                   /\ k + 1 \in DOMAIN FinalMessage.ToolCalls
                   /\ FinalMessage.ToolCalls[k + 1] = toolCalls[k]

------------------------------------------------------------------------------
\* Whole runs of the reconstructor, for comparing two bodies

\* The loop over lines, from the locals s, until it breaks or faults.
RECURSIVE RunLines(_, _)
RunLines(s, lines) ==
    IF lines = <<>> \/ s.ctl # "scan" THEN s
    ELSE RunLines(ProcessLine(s, Head(lines)), Tail(lines))

\* The response returned after the loop (nil when finalization faults).
Ended(s) ==
    IF s.ctl = "panic" \/ SliceFaults(s.toolCalls) THEN Nil
    ELSE Ptr(Assemble(s.resp, s.toolCalls))

\* The same content as an ordinary delta.
AsFragments(calls) == [k \in 1..Len(calls) |-> [calls[k] EXCEPT !.Index = Ptr(k - 1)]]

AsDelta(e) ==
    IF IsWhole(e)
    THEN LET msg == Deref(e.Message) IN
         Entry(e.Index,
               Ptr(Delta(msg.Role, msg.Content.Text, AsFragments(msg.ToolCalls), msg.Refusal)),
               Nil, e.FinishReason)
    ELSE e

AsDeltas(line) ==
    IF line.kind = "chunk"
    THEN Data(Chunk(line.chunk.ID,
                    [k \in 1..Len(line.chunk.Choices) |-> AsDelta(line.chunk.Choices[k])],
                    line.chunk.Usage))
    ELSE line

WholeCount(es) == Cardinality({k \in 1..Len(es) : IsWhole(es[k])})
WholeTextCount(es) ==
    Cardinality({k \in 1..Len(es) : IsWhole(es[k]) /\ Deref(es[k].Message).Content.Text # Nil})
FinalEventCount(evs) ==
    Cardinality({k \in 1..Len(evs) : ~evs[k].Partial /\ evs[k].Content # Nil})

FinishOf(r) == IF Len(r.Choices) = 0 THEN Nil ELSE r.Choices[1].FinishReason

\* C6 as stated: a stream with a complete message in place of a delta returns
\* the same role, text, tool calls and finish reason as the stream with the
\* equivalent deltas, a non-empty identifier, and sends one non-partial
\* content event per message text, whatever else the stream contains.
C6_AsStated ==
    (StreamReturned /\ WholeCount(AllEntries(body)) > 0) =>
        LET alt == Ended(RunLines(Fresh, [k \in 1..Len(body) |-> AsDeltas(body[k])])) IN
        /\ alt # Nil
        /\ FinalMessage.Role = Deref(Deref(alt).Choices[1].Message).Role
        /\ FinalMessage.Content = Deref(Deref(alt).Choices[1].Message).Content
        /\ FinalMessage.ToolCalls = Deref(Deref(alt).Choices[1].Message).ToolCalls
        /\ FinishOf(Deref(retResp)) = FinishOf(Deref(alt))
        /\ Deref(retResp).ID # ""
        /\ token => FinalEventCount(events) = WholeTextCount(AllEntries(body))

\* C7 as stated: a recorded finish reason keeps its value in every later
\* state and in the returned response.
C7_AsStated ==
    [][(path = "stream" /\ FinishOf(resp) # Nil) =>
           /\ FinishOf(resp') = FinishOf(resp)
           /\ retResp' # Nil => FinishOf(Deref(retResp')) = FinishOf(resp)]_vars

\* The finish reason of the last delta that carries one.
RECURSIVE LastFinish(_, _)
LastFinish(es, acc) ==
    IF es = <<>> THEN acc
    ELSE LastFinish(Tail(es),
                    IF IsDelta(Head(es)) /\ Head(es).FinishReason # Nil
                    THEN Head(es).FinishReason ELSE acc)

\* C7: the finish reason of choice 0 is, in every state and in the returned
\* response, the one of the last delta for choice 0 that carried a finish
\* reason: a later delta with a finish reason replaces it, a chunk without
\* one and a complete message leave it as it is, and it is never cleared.
C7_LastFinishWins ==
    path = "stream" =>
        /\ FinishOf(resp) = LastFinish(AllEntries(body), Nil)
        /\ Returned => FinishOf(Deref(retResp)) = LastFinish(AllEntries(body), Nil)

C7_Witness ==
    /\ StreamReturned
    /\ body = <<Data(FinStop), Data(FinLength), Data(Whole)>>
    /\ FinishOf(Deref(retResp)) = Ptr("length")

Decodable(lines) == SelectSeq(lines, LAMBDA l : l.kind # "bad")

\* C8: on the streaming path the locals, the events and the outcome are those
\* of the same body without its undecodable data lines; an undecodable line
\* does not initialize the response and the call fails only on a scanner
\* error.
C8_BadLinesSkipped ==
    path = "stream" =>
        LET s == RunLines(Fresh, Decodable(body)) IN
        /\ initialized = s.initialized
        /\ toolCalls = s.toolCalls
        /\ events = s.events
        /\ resp = IF Returned THEN Assemble(s.resp, s.toolCalls) ELSE s.resp
        /\ (panicAt = "choices") = (s.ctl = "panic")
        /\ retErr # Nil => fault = "scanner"

C8_Witness ==
    /\ StreamReturned
    /\ body = <<Data(ContentA), Bad, Data(ContentB)>>
    /\ FinalText = <<"a", "b">>
    /\ Deref(retResp).ID = "c1"

\* C9 as stated: once [DONE] has been read no later line is processed and the
\* call returns what was accumulated before it, without an error.
C9_AsStated ==
    (path = "stream" /\ \E k \in 1..Len(body) : body[k] = Done) =>
        LET k == CHOOSE j \in 1..Len(body) : body[j] = Done /\ \A i \in 1..(j - 1) : body[i] # Done
            s == RunLines(Fresh, SubSeq(body, 1, k - 1))
        IN  /\ Len(body) = k
            /\ Returned
            /\ retErr = Nil
            /\ events = s.events
            /\ toolCalls = s.toolCalls
            /\ resp = Assemble(s.resp, s.toolCalls)

\* C10 as stated: a finished call has exactly one of a response and an error,
\* and it has the error exactly when the environment injected a failure.
C10_AsStated ==
    pc \in {"done", "panic"} =>
        /\ (retResp # Nil) # (retErr # Nil)
        /\ (retErr # Nil) <=> (fault \in {"transport", "status", "peek", "read", "json", "scanner"})

\* C11 as stated: a call whose context was canceled while the stream was
\* being read ends with an error and no response.
C11_AsStated ==
    (canceled /\ path = "stream" /\ pc \in {"done", "panic"}) =>
        retErr # Nil /\ retResp = Nil

\* C12: without a continuation token no progress event reaches the sink, on
\* the buffered path, for deltas, and for a complete message in place of a
\* delta (its text and its tool calls).
C12_NoTokenNoEvents == ~token => events = <<>>

\* A call without a token has returned a stream in which a complete message
\* with text and a tool call stood in place of a delta.
C12_Witness ==
    /\ ~token
    /\ pc = "done"
    /\ path = "stream"
    /\ retResp # Nil
    /\ \E k \in 1..Len(body) : body[k] = Data(Whole)

------------------------------------------------------------------------------
\* The progress events a body calls for, read off the lines alone

\* What an event shows of its item: content or tool call, the item number and
\* the payload.
Shape(ev) ==
    IF ev.Content # Nil
    THEN [kind |-> "content", n |-> ev.ID[3], text |-> Deref(ev.Content)]
    ELSE [kind |-> "tool", n |-> ev.ID[3], text |-> Deref(ev.ToolCall).Arguments]

Flags(ev) == [partial |-> ev.Partial, more |-> ev.HasMore]

Expect(kind, n, text, partial, more) ==
    [kind |-> kind, n |-> n, text |-> text, partial |-> partial, more |-> more]

\* The events of one delta: the content, then the fragments in list order.
DeltaExpect(e) ==
    LET d    == Deref(e.Delta)
        more == e.FinishReason = Nil
    IN  (IF d.Content # Nil
         THEN <<Expect("content", 0, Deref(d.Content), TRUE, more)>> ELSE <<>>)
        \o [k \in 1..Len(d.ToolCalls) |->
              Expect("tool", FragsOf(e)[k].index, d.ToolCalls[k].Function.Arguments,
                     TRUE, more)]

\* The events of a complete message: the text, then the calls in list order.
WholeExpect(e) ==
    LET m == Deref(e.Message) IN
    (IF m.Content.Text # Nil
     THEN <<Expect("content", 0, Deref(m.Content.Text), FALSE, FALSE)>> ELSE <<>>)
    \o [k \in 1..Len(m.ToolCalls) |->
          Expect("tool", k - 1, m.ToolCalls[k].Function.Arguments, FALSE, FALSE)]

\* The events of the entries es; known: the response identifier is non-empty.
RECURSIVE ExpectIn(_, _)
ExpectIn(es, known) ==
    IF es = <<>> THEN <<>>
    ELSE IF IsWhole(Head(es)) THEN WholeExpect(Head(es)) \o ExpectIn(Tail(es), TRUE)
    ELSE (IF IsDelta(Head(es)) /\ known THEN DeltaExpect(Head(es)) ELSE <<>>)
         \o ExpectIn(Tail(es), known)

\* The events of the lines, line by line.
RECURSIVE ExpectedEvents(_, _)
ExpectedEvents(lines, known) ==
    IF lines = <<>> THEN <<>>
    ELSE LET l  == Head(lines)
             k1 == known \/ (l.kind = "chunk" /\ l.chunk.ID # "")
             es == EntriesOf(l)
         IN  ExpectIn(es, k1)
             \o ExpectedEvents(Tail(lines), k1 \/ \E i \in 1..Len(es) : IsWhole(es[i]))

ShapeOf(x) == [kind |-> x.kind, n |-> x.n, text |-> x.text]
FlagsOf(x) == [partial |-> x.partial, more |-> x.more]

Streaming == token /\ path = "stream" /\ pc \in {"scan", "done"}

\* C13: events are dispatched inline in call order.  Whenever the loop is
\* about to read a line, and when the call has returned, the events
\* dispatched are exactly those of the lines read so far: line after line in
\* the order of the lines, and within one delta the content event first and
\* then the tool-call events in the order of the fragments.
C13_InlineInOrder ==
    Streaming =>
        [k \in 1..Len(events) |-> Shape(events[k])]
            = [k \in 1..Len(ExpectedEvents(body, FALSE)) |->
                  ShapeOf(ExpectedEvents(body, FALSE)[k])]

\* A delta with content and two tool-call fragments, between two other
\* chunks, has been read and the call has returned.
C13_Witness ==
    /\ token /\ StreamReturned
    /\ body = <<Data(ContentB), Data(Mixed), Data(Tool0More)>>
    /\ [k \in 1..Len(events) |-> Shape(events[k]).text]
           = << <<"b">>, <<"m">>, <<"s">>, <<"t">>, <<"y">> >>

\* C14: every event of an ordinary delta (content or tool-call fragment) is
\* partial and has has-more true exactly when the delta's entry carries no
\* finish reason; every event of the buffered path and of a complete message
\* in place of a delta is non-partial with has-more false.
C14_Flags ==
    /\ Streaming =>
           [k \in 1..Len(events) |-> Flags(events[k])]
               = [k \in 1..Len(ExpectedEvents(body, FALSE)) |->
                     FlagsOf(ExpectedEvents(body, FALSE)[k])]
    /\ path = "buffered" =>
           \A k \in 1..Len(events) : ~events[k].Partial /\ ~events[k].HasMore

\* A fragment without a finish reason, a delta with content, two fragments
\* and a finish reason, then a complete message with text and a tool call.
C14_Witness ==
    /\ token /\ StreamReturned
    /\ body = <<Data(Tool0), Data(Mixed), Data(Whole)>>
    /\ [k \in 1..Len(events) |-> Flags(events[k])]
           = <<[partial |-> TRUE, more |-> TRUE],
               [partial |-> TRUE, more |-> FALSE],
               [partial |-> TRUE, more |-> FALSE],
               [partial |-> TRUE, more |-> FALSE],
               [partial |-> FALSE, more |-> FALSE],
               [partial |-> FALSE, more |-> FALSE]>>

\* The tool-call fragments of a delta as they are sighted: the index they
\* are filed under and what they carry.
Sightings(e) ==
    IF IsDelta(e)
    THEN [k \in 1..Len(Deref(e.Delta).ToolCalls) |->
            LET tc == Deref(e.Delta).ToolCalls[k] IN
            [index |-> FragsOf(e)[k].index, id |-> tc.ID, type |-> tc.Type,
             name |-> tc.Function.Name, args |-> tc.Function.Arguments]]
    ELSE <<>>

RECURSIVE AllSightings(_)
AllSightings(es) ==
    IF es = <<>> THEN <<>> ELSE Sightings(Head(es)) \o AllSightings(Tail(es))

\* The first sighting under index i.
FirstUnder(fs, i) ==
    fs[CHOOSE k \in 1..Len(fs) :
          fs[k].index = i /\ \A j \in 1..(k - 1) : fs[j].index # i]

\* What a tool-call event says of its call.
Named(id, name, args) == [id |-> id, name |-> name, args |-> args]

RECURSIVE PartialCalls(_)
PartialCalls(evs) ==
    IF evs = <<>> THEN <<>>
    ELSE (IF Head(evs).Partial /\ Head(evs).ToolCall # Nil
          THEN <<Named(Deref(Head(evs).ToolCall).CallID, Deref(Head(evs).ToolCall).Name,
                       Deref(Head(evs).ToolCall).Arguments)>>
          ELSE <<>>) \o PartialCalls(Tail(evs))

\* The expected tool-call events of the deltas, named after the first sighting.
RECURSIVE ExpectedCalls(_, _)
ExpectedCalls(xs, fs) ==
    IF xs = <<>> THEN <<>>
    ELSE (IF Head(xs).partial /\ Head(xs).kind = "tool"
          THEN <<Named(FirstUnder(fs, Head(xs).n).id, FirstUnder(fs, Head(xs).n).name,
                       Head(xs).text)>>
          ELSE <<>>) \o ExpectedCalls(Tail(xs), fs)

\* C15: under every index of the accumulator the call identifier, the type
\* and the function name are those of the first fragment seen under that
\* index, whatever later fragments under it carry, and the arguments are the
\* fragments under it in arrival order; every tool-call event of a delta
\* carries the identifier and name of the first sighting of its index and
\* only the new argument fragment.
C15_FirstSightingFixed ==
    LET fs == AllSightings(AllEntries(body)) IN
    /\ (path = "stream" /\ pc \in {"scan", "done"}) =>
           /\ DOMAIN toolCalls = IndexSet(fs)
           /\ \A i \in DOMAIN toolCalls :
                  /\ toolCalls[i].ID = FirstUnder(fs, i).id
                  /\ toolCalls[i].Type = FirstUnder(fs, i).type
                  /\ toolCalls[i].Function.Name = FirstUnder(fs, i).name
                  /\ toolCalls[i].Function.Arguments = ArgsUnder(fs, i)
    /\ Streaming => PartialCalls(events) = ExpectedCalls(ExpectedEvents(body, FALSE), fs)

\* Index 0 was first sighted without identifier and name; a later fragment
\* under index 0 carries "call0" and "f".
C15_Witness ==
    /\ token /\ StreamReturned
    /\ body = <<Data(ContentB), Data(Tool0More), Data(Tool0)>>
    /\ toolCalls[0].ID = "" /\ toolCalls[0].Function.Name = ""
    /\ toolCalls[0].Function.Arguments = <<"y", "x">>
    /\ PartialCalls(events) = <<Named("", "", <<"y">>), Named("", "", <<"x">>)>>

\* The line without its entries for a choice index outside the choice list.
InRange(line) ==
    IF line.kind = "chunk"
    THEN Data(Chunk(line.chunk.ID, EntriesOf(line), line.chunk.Usage))
    ELSE line

\* C16 as stated: on the streaming path the response has exactly one choice
\* from the first decoded chunk on; an entry whose choice index is outside
\* the choice list never faults the call and leaves the response, the
\* accumulator and the events as they are without it.
C16_AsStated ==
    path = "stream" =>
        LET s == RunLines(Fresh, [k \in 1..Len(body) |-> InRange(body[k])]) IN
        /\ initialized => Len(resp.Choices) = 1
        /\ panicAt # "choices"
        /\ pc # "panic" =>
               /\ initialized = s.initialized
               /\ toolCalls = s.toolCalls
               /\ events = s.events
               /\ resp = IF Returned THEN Assemble(s.resp, s.toolCalls) ELSE s.resp

\* C17 as stated: on the buffered path with a token the call sends one
\* non-partial event for the text of the first choice when it has one, then
\* one per tool call in list order, nothing else; when the first choice has no
\* message it sends no event and still returns the response.
C17_AsStated ==
    (path = "buffered" /\ token /\ pc \in {"done", "panic"} /\ retErr = Nil
        /\ Len(resp.Choices) > 0) =>
        LET xs == IF resp.Choices[1].Message = Nil THEN <<>>
                  ELSE WholeExpect(resp.Choices[1])
        IN  /\ [k \in 1..Len(events) |-> Shape(events[k])]
                   = [k \in 1..Len(xs) |-> ShapeOf(xs[k])]
            /\ \A k \in 1..Len(events) : ~events[k].Partial /\ ~events[k].HasMore
            /\ Returned
            /\ Deref(retResp) = resp

\* C18: all events of one call carry the same non-empty message identifier,
\* the identifier of the response, which is the identifier of the response
\* the call returns; once the response identifier is non-empty no step of
\* the call changes it.
C18_OneIdentifier ==
    /\ [](/\ \A k \in 1..Len(events) :
                events[k].MessageID # "" /\ events[k].MessageID = resp.ID
          /\ Returned => Deref(retResp).ID = resp.ID)
    /\ [][resp.ID # "" => resp'.ID = resp.ID]_vars

\* Two events under "c1", then a chunk with the identifier "c2".
C18_Witness ==
    /\ token /\ StreamReturned
    /\ body = <<Data(ContentB), Data(Tool0), Data(UsageOnly)>>
    /\ Len(events) = 2
    /\ Deref(retResp).ID = "c1"
    /\ Deref(retResp).Usage = Ptr(7)

\* The number of the first line of the body that is not blank.
FirstNonBlank(r) ==
    LET texts == SplitLines(r.head, <<>>) IN
    CHOOSE k \in 1..Len(texts) :
        /\ TrimSpace(texts[k]) # <<>>
        /\ \A j \in 1..(k - 1) : TrimSpace(texts[j]) = <<>>

\* C19 as stated: when the detector selects the streaming path, the loop
\* takes the first non-blank line of the body for a data line and processes
\* its payload.
C19_AsStated ==
    (path = "stream" /\ Len(body) >= FirstNonBlank(raw)) =>
        body[FirstNonBlank(raw)] = raw.first

------------------------------------------------------------------------------
\* Server.describeSession: the caller makes the channel result and returns
\* it; when the session has no description a goroutine asks for a summary,
\* stores the first text content as the description, updates the database
\* row of the session and closes result.

\* The longest content list nanobot.summary returns.
MaxContent == 3

ContentLists == UNION {[1..n -> {"text", "image"}] : n \in 0..MaxContent}

\* How far the database update gets.
Lookups == {"no-manager", "no-state", "no-id", "get-failed", "not-found", "found"}

DescribeInit ==
    /\ CallInit
    /\ ~token
    /\ WireIdle
    /\ mpc = "idle"
    /\ gpc = "idle"
    /\ description \in {"", "old"}
    /\ contents = [Content |-> <<>>, next |-> 1]
    /\ lookup = "none"
    /\ closes = 0
    /\ sessionSet = FALSE
    /\ dbTried = FALSE

\* describeSession that closes result itself whether or not it has started
\* the goroutine.
Describe_CloseAlways ==
    /\ mpc = "idle"
    /\ mpc' = "returned"
    /\ closes' = closes + 1
    /\ gpc' = IF description = "" THEN "call" ELSE gpc
    /\ UNCHANGED <<description, contents, lookup, sessionSet, dbTried, call, wire>>

\* The body of describeSession up to "return result".
Describe ==
    /\ mpc = "idle"
    /\ mpc' = "returned"
    /\ IF description = ""
       THEN gpc' = "call" /\ closes' = closes
       ELSE gpc' = gpc /\ closes' = closes + 1
    /\ UNCHANGED <<description, contents, lookup, sessionSet, dbTried, call, wire>>

\* s.runtime.Call returns an error: close(result); return.
CallFails ==
    /\ gpc = "call"
    /\ closes' = closes + 1
    /\ gpc' = "exit"
    /\ UNCHANGED <<mpc, description, contents, lookup, sessionSet, dbTried, call, wire>>

\* s.runtime.Call returns ret.
CallReturns ==
    /\ gpc = "call"
    /\ \E cs \in ContentLists : contents' = [Content |-> cs, next |-> 1]
    /\ gpc' = "loop"
    /\ UNCHANGED <<mpc, description, lookup, closes, sessionSet, dbTried, call, wire>>

\* A content that is not text: the next iteration.
SkipContent ==
    /\ gpc = "loop"
    /\ contents.next <= Len(contents.Content)
    /\ contents.Content[contents.next] # "text"
    /\ contents' = [contents EXCEPT !.next = @ + 1]
    /\ UNCHANGED <<mpc, gpc, description, lookup, closes, sessionSet, dbTried, call, wire>>

\* The first text content: session.Set(DescriptionSessionKey, description).
SetSession ==
    /\ gpc = "loop"
    /\ contents.next <= Len(contents.Content)
    /\ contents.Content[contents.next] = "text"
    /\ description' = "new"
    /\ sessionSet' = TRUE
    /\ gpc' = "lookup"
    /\ UNCHANGED <<mpc, contents, lookup, closes, dbTried, call, wire>>

\* The manager, the session state, the session ID and manager.DB.Get; any of
\* them missing or failing leaves the database as it is and breaks the loop.
Lookup ==
    /\ gpc = "lookup"
    /\ \E l \in Lookups :
         /\ lookup' = l
         /\ gpc' = IF l = "found" THEN "update" ELSE "close"
    /\ UNCHANGED <<mpc, description, contents, closes, sessionSet, dbTried, call, wire>>

\* manager.DB.Update, and the sleep after a successful update; break.
UpdateDB ==
    /\ gpc = "update"
    /\ dbTried' = TRUE
    /\ \E ok \in BOOLEAN : lookup' = IF ok THEN "updated" ELSE "update-failed"
    /\ gpc' = "close"
    /\ UNCHANGED <<mpc, description, contents, closes, sessionSet, call, wire>>

\* The loop is over (no text content, or the break): close(result).
Close ==
    /\ IF gpc = "loop" THEN contents.next > Len(contents.Content) ELSE gpc = "close"
    /\ closes' = closes + 1
    /\ gpc' = "exit"
    /\ UNCHANGED <<mpc, description, contents, lookup, sessionSet, dbTried, call, wire>>

DescribeNext ==
    \/ Describe
    \/ CallFails
    \/ CallReturns
    \/ SkipContent
    \/ SetSession
    \/ Lookup
    \/ UpdateDB
    \/ Close

SpecDescribe == DescribeInit /\ [][DescribeNext]_vars

\* Nothing of describeSession is left to run.
Described == mpc = "returned" /\ gpc \in {"idle", "exit"}

Generated == sessionSet /\ description = "new"

====
